---- MODULE Spec2Model ----
(***************************************************************************)
(* MonitorCronJobs: the job-state resolver of core.py.                     *)
(*                                                                         *)
(* get_job_state(job) is modelled step by step (one action per external    *)
(* operation it performs: the pgrep query, the glob, the stats, the clock  *)
(* read, the file read) interleaved with an environment that starts and    *)
(* stops processes, writes, deletes and protects log files, and advances   *)
(* the wall clock.                                                         *)
(***************************************************************************)
EXTENDS Integers, Sequences, FiniteSets, TLC

\* ------------------------------------------------------------------ bounds
\* The wall clock takes the values 0..MaxTicks, one tick being TickHours hours.
MaxTicks == 2
TickHours == 24
\* A log text has at most MaxLogLen pieces when the classifier is called alone.
MaxLogLen == 3
\* The window check called alone gets the days at most DaySpan days from a
\* 31 December.
DaySpan == 10
\* A configuration file lists at most MaxRecords records.
MaxRecords == 3
\* The tray application starts at most MaxCycles refresh cycles.
MaxCycles == 2

\* ------------------------------------------------------------ option values
\* Python's None and a present value.
None == <<>>
Some(x) == <<x>>
Get(o) == o[1]

\* ------------------------------------------------------------ core.py 14-16
MARKER_FAILED == "[JOB FAILED]"
MARKER_SUCCESS == "[JOB SUCCEEDED]"
MARKER_STARTED == "[JOB STARTED]"

\* enums.py: JobFrequency and JobStatus
JobFrequency == {"daily", "weekly", "monthly"}
JobStatus ==
    {"STALE", "ERROR", "FAILED", "RUNNING", "SUCCESS", "CRASHED", "MISSING", "UNKNOWN"}

\* models.py: JobState(status, message, file, last_modification_time=None)
JobState(status, message, file, last_modification_time) ==
    [status |-> status, message |-> message, file |-> file,
     last_modification_time |-> last_modification_time]

\* --------------------------------------------------------- calendar (datetime)
\* The proleptic Gregorian calendar as Python's datetime module computes it.
IsLeap(y) == (y % 4 = 0) /\ ((y % 100 # 0) \/ (y % 400 = 0))

DaysInMonth(y, m) ==
    IF m = 2 THEN (IF IsLeap(y) THEN 29 ELSE 28)
    ELSE IF m \in {4, 6, 9, 11} THEN 30 ELSE 31

\* days before January 1st of year y (day 1 is 0001-01-01)
DaysBeforeYear(y) ==
    LET p == y - 1 IN p * 365 + (p \div 4) - (p \div 100) + (p \div 400)

RECURSIVE DaysBeforeMonth(_, _)
DaysBeforeMonth(y, m) ==
    IF m = 1 THEN 0 ELSE DaysBeforeMonth(y, m - 1) + DaysInMonth(y, m - 1)

\* date.toordinal()
Ymd2Ord(y, m, d) == DaysBeforeYear(y) + DaysBeforeMonth(y, m) + d

\* the year of an ordinal: the largest y with DaysBeforeYear(y) < ord
RECURSIVE YearFrom(_, _)
YearFrom(y, ord) == IF DaysBeforeYear(y + 1) < ord THEN YearFrom(y + 1, ord) ELSE y

RECURSIVE MonthFrom(_, _, _)
MonthFrom(y, m, rest) ==
    IF rest > DaysInMonth(y, m) THEN MonthFrom(y, m + 1, rest - DaysInMonth(y, m))
    ELSE m

\* date.fromordinal()
Ord2Ymd(ord) ==
    LET y == YearFrom((ord * 400) \div 146097, ord)
        rest == ord - DaysBeforeYear(y)
        m == MonthFrom(y, 1, rest)
    IN  [year |-> y, month |-> m, day |-> rest - DaysBeforeMonth(y, m)]

\* the ordinal of the Monday that starts ISO week 1 of a year
IsoWeek1Monday(y) ==
    LET firstday == Ymd2Ord(y, 1, 1)
        firstweekday == (firstday + 6) % 7
        week1monday == firstday - firstweekday
    IN  IF firstweekday > 3 THEN week1monday + 7 ELSE week1monday

\* datetime.isocalendar()[:2] : <<ISO year, ISO week>>
IsoCalendar2(dt) ==
    LET today == Ymd2Ord(dt.year, dt.month, dt.day)
        w0 == (today - IsoWeek1Monday(dt.year)) \div 7
    IN  IF today < IsoWeek1Monday(dt.year)
        THEN <<dt.year - 1, ((today - IsoWeek1Monday(dt.year - 1)) \div 7) + 1>>
        ELSE IF w0 >= 52 /\ today >= IsoWeek1Monday(dt.year + 1)
        THEN <<dt.year + 1, 1>>
        ELSE <<dt.year, w0 + 1>>

\* datetime.date()
DateOf(dt) == <<dt.year, dt.month, dt.day>>

\* Timestamps count hours from the midnight that starts Sunday 2026-08-30
\* (local time): Monday 2026-08-31 opens ISO week 36 and Tuesday 2026-09-01
\* opens a month.
EpochOrdinal == Ymd2Ord(2026, 8, 30)

\* datetime.fromtimestamp(ts)
FromTimestamp(ts) ==
    LET ymd == Ord2Ymd(EpochOrdinal + (ts \div 24))
    IN  [year |-> ymd.year, month |-> ymd.month, day |-> ymd.day, hour |-> ts % 24]

\* ------------------------------------------------- core.py 150-168: windows
\* mutant: the days of the month are compared, not the dates
check_daily_DayOfMonth(last_run, current_time) == last_run.day = current_time.day

check_daily(last_run, current_time) == DateOf(last_run) = DateOf(current_time)

\* mutant: the week number is paired with the calendar year, not the ISO year
check_weekly_CalendarYear(last_run, current_time) ==
    <<last_run.year, IsoCalendar2(last_run)[2]>>
        = <<current_time.year, IsoCalendar2(current_time)[2]>>

check_weekly(last_run, current_time) ==
    IsoCalendar2(last_run) = IsoCalendar2(current_time)

\* mutant: the year is not compared
check_monthly_MonthOnly(last_run, current_time) ==
    last_run.month = current_time.month

check_monthly(last_run, current_time) ==
    (last_run.month = current_time.month) /\ (last_run.year = current_time.year)

\* the keys of the FREQUENCY_STRATEGIES dict
FREQUENCY_STRATEGIES == {"daily", "weekly", "monthly"}

\* FREQUENCY_STRATEGIES[frequency](last_run, current_time)
check_strategy(frequency, last_run, current_time) ==
    CASE frequency = "daily" -> check_daily(last_run, current_time)
      [] frequency = "weekly" -> check_weekly(last_run, current_time)
      [] frequency = "monthly" -> check_monthly(last_run, current_time)

\* mutant: an unknown tag falls back to the daily check
is_execution_within_current_interval_Daily(last_run, frequency, current_time, wall_clock) ==
    LET ct == IF current_time = None THEN wall_clock ELSE Get(current_time)
    IN  IF frequency \notin FREQUENCY_STRATEGIES THEN check_daily(last_run, ct)
        ELSE check_strategy(frequency, last_run, ct)

\* core.py 86-102. current_time is None or Some(datetime); wall_clock is what
\* datetime.now() returns at the moment of the call.
is_execution_within_current_interval(last_run, frequency, current_time, wall_clock) ==
    LET ct == IF current_time = None THEN wall_clock ELSE Get(current_time)
    IN  IF frequency \notin FREQUENCY_STRATEGIES THEN FALSE
        ELSE check_strategy(frequency, last_run, ct)

\* ------------------------------------------- core.py 68-83: is_job_running
\* What subprocess.call(["pgrep", "-f", pattern]) can do: complete with an exit
\* status (0 match, 1 no match, 2 syntax error, 3 fatal error) or raise.
ExitCodes == 0..3
QueryErrors == {"FileNotFoundError", "PermissionError", "Exception"}
QueryOutcomes ==
    [kind : {"exit"}, code : ExitCodes, error : {"-"}]
        \cup [kind : {"raise"}, code : {-1}, error : QueryErrors]

\* mutant: "if pattern is None" in place of "if not pattern"
Falsy_NoneOnly(pattern) == pattern = None

\* "not pattern": None and the empty string are falsy
Falsy(pattern) == pattern = None \/ pattern = Some("")

\* "except Exception" catches every exception class the query can raise
IsException(error) == error \in {"FileNotFoundError", "PermissionError", "Exception"}

\* mutant: the try/except around subprocess.call is missing
is_job_running_NoExcept(pattern, outcome) ==
    IF pattern = None \/ pattern = Some("")
    THEN [value |-> FALSE, queried |-> FALSE, raised |-> None]
    ELSE IF outcome.kind = "exit"
    THEN [value |-> (outcome.code = 0), queried |-> TRUE, raised |-> None]
    ELSE [value |-> FALSE, queried |-> TRUE, raised |-> Some(outcome.error)]

\* The call's return value, whether subprocess.call was invoked, and the
\* exception that leaves the function (None: it returned).
is_job_running(pattern, outcome) ==
    IF Falsy(pattern)
    THEN [value |-> FALSE, queried |-> FALSE, raised |-> None]
    ELSE IF outcome.kind = "exit"
    THEN [value |-> (outcome.code = 0), queried |-> TRUE, raised |-> None]
    ELSE IF IsException(outcome.error)
    THEN [value |-> FALSE, queried |-> TRUE, raised |-> None]
    ELSE [value |-> FALSE, queried |-> TRUE, raised |-> Some(outcome.error)]

\* --------------------------------------- core.py 105-147: _analyze_log_file
\* "marker in content": the content is a sequence of text pieces, each a marker
\* or other text
Contains(content, marker) == \E i \in 1..Len(content) : content[i] = marker

\* open(filepath).read(): the text, or the OSError raised
ReadOk(content) == [ok |-> TRUE, content |-> content, error |-> "-"]
ReadFails(error) == [ok |-> FALSE, content |-> <<>>, error |-> error]

\* mutant: the success marker is looked for before the failure marker
analyze_log_file_SuccessFirst(filepath, modification_time, read) ==
    IF ~read.ok
    THEN JobState("ERROR", read.error, Some(filepath), None)
    ELSE IF Contains(read.content, MARKER_SUCCESS)
    THEN JobState("SUCCESS", "Finished", Some(filepath), Some(modification_time))
    ELSE IF Contains(read.content, MARKER_FAILED)
    THEN JobState("FAILED", "Failed", Some(filepath), Some(modification_time))
    ELSE IF Contains(read.content, MARKER_STARTED)
    THEN JobState("CRASHED", "Crashed", Some(filepath), Some(modification_time))
    ELSE JobState("UNKNOWN", "Unknown log format", Some(filepath),
                  Some(modification_time))

\* shared by the mutants below: the content branches, unchanged
ClassifyContent(filepath, modification_time, content) ==
    IF Contains(content, MARKER_FAILED)
    THEN JobState("FAILED", "Failed", Some(filepath), Some(modification_time))
    ELSE IF Contains(content, MARKER_SUCCESS)
    THEN JobState("SUCCESS", "Finished", Some(filepath), Some(modification_time))
    ELSE IF Contains(content, MARKER_STARTED)
    THEN JobState("CRASHED", "Crashed", Some(filepath), Some(modification_time))
    ELSE JobState("UNKNOWN", "Unknown log format", Some(filepath),
                  Some(modification_time))

\* mutant: the UNKNOWN result is built without last_modification_time
analyze_log_file_UnknownNoTime(filepath, modification_time, read) ==
    IF ~read.ok
    THEN JobState("ERROR", read.error, Some(filepath), None)
    ELSE IF ClassifyContent(filepath, modification_time, read.content).status = "UNKNOWN"
    THEN JobState("UNKNOWN", "Unknown log format", Some(filepath), None)
    ELSE ClassifyContent(filepath, modification_time, read.content)

\* mutant: the ERROR result is built with file=None
analyze_log_file_ErrorNoFile(filepath, modification_time, read) ==
    IF ~read.ok
    THEN JobState("ERROR", read.error, None, None)
    ELSE ClassifyContent(filepath, modification_time, read.content)

\* mutant: the ERROR result carries last_modification_time like the others
analyze_log_file_ErrorWithTime(filepath, modification_time, read) ==
    IF ~read.ok
    THEN JobState("ERROR", read.error, Some(filepath), Some(modification_time))
    ELSE ClassifyContent(filepath, modification_time, read.content)

\* mutant: the ERROR result has a fixed message in place of str(e)
analyze_log_file_FixedMessage(filepath, modification_time, read) ==
    IF ~read.ok
    THEN JobState("ERROR", "Could not read log", Some(filepath), None)
    ELSE ClassifyContent(filepath, modification_time, read.content)

analyze_log_file(filepath, modification_time, read) ==
    IF ~read.ok
    THEN JobState("ERROR", read.error, Some(filepath), None)
    ELSE IF Contains(read.content, MARKER_FAILED)
    THEN JobState("FAILED", "Failed", Some(filepath), Some(modification_time))
    ELSE IF Contains(read.content, MARKER_SUCCESS)
    THEN JobState("SUCCESS", "Finished", Some(filepath), Some(modification_time))
    ELSE IF Contains(read.content, MARKER_STARTED)
    THEN JobState("CRASHED", "Crashed", Some(filepath), Some(modification_time))
    ELSE JobState("UNKNOWN", "Unknown log format", Some(filepath),
                  Some(modification_time))

\* ------------------------------------------------------------------- state
\* The log files the job's log_pattern can match.
Files == {"/var/log/backup-01.log", "/var/log/backup-02.log"}

\* The contents a log file is written with (the logs of tests/conftest.py).
LogContents ==
    { <<"Some log content without markers">>,
      <<MARKER_STARTED, "Processing...">>,
      <<MARKER_STARTED, "Processing...", MARKER_SUCCESS>>,
      <<MARKER_STARTED, "Error occurred", MARKER_FAILED>> }

\* The jobs get_job_state is called with (models.py: Job).
Jobs ==
    [name : {"Daily Backup"}, frequency : JobFrequency,
     log_pattern : {"/var/log/backup-*.log"},
     process_pattern : {"", "backup_script.py"}]

\* The patterns is_job_running is called with.
Patterns == {None, Some(""), Some("backup_script.py")}

VARIABLES
    now,          \* the wall clock, in ticks
    proc_alive,   \* a process matching "backup_script.py" is in the process table
    fs,           \* the file system: Files -> None | Some([mtime, content])
    pc,           \* where the call in progress stands
    job,          \* the argument of get_job_state
    probe,        \* a direct is_job_running call: None | Some(record)
    running,      \* what is_job_running returned to get_job_state
    globbed,      \* the list glob.glob returned: None | Some(set of paths)
    latest_file,  \* get_latest_log_file's return value
    mtime,        \* last_log_modification_time
    checked_at,   \* the datetime.now() the window check read
    read,         \* what reading the log's content gave: None | Some(record)
    steps,        \* the external operations of the call in progress, in order
    result,       \* the JobState returned: None | Some(JobState)
    raised        \* the exception that left the call: None | Some(name)

envVars == <<now, proc_alive, fs>>
callVars ==
    <<pc, job, probe, running, globbed, latest_file, mtime, checked_at, read, steps,
      result, raised>>

\* The callers of the resolver and the window check called alone.
VARIABLES
    arg_last_run,     \* is_execution_within_current_interval's last_run
    arg_frequency,    \* its frequency argument
    arg_current_time, \* its current_time argument: None | Some(datetime)
    within,       \* its return value: None | Some(BOOLEAN)
    config,       \* what JOBS_FILE holds
    jobs,         \* the list load_jobs returned to the application
    app,          \* where the application stands
    job_rows,     \* the tray's JobRows, in menu order
    current_statuses, \* the list refresh_jobs is collecting
    tray_icon,    \* what TrayController shows: None | Some([icon, description])
    cycle,        \* how many refresh cycles have started
    arg_id,       \* the CLI's id argument: None | Some(number)
    table,        \* the rows added to the CLI's table
    output,       \* what the CLI has put on the console: None | Some(record)
    last_call     \* an earlier get_job_state call, as its caller recorded it:
                  \* None | Some([job, facts, result])

winVars == <<arg_last_run, arg_frequency, arg_current_time, within>>
trayVars == <<job_rows, current_statuses, tray_icon, cycle>>
cliVars == <<arg_id, table, output>>
appVars == <<winVars, config, jobs, app, trayVars, cliVars, last_call>>

vars == <<now, proc_alive, fs, pc, job, probe, running, globbed, latest_file, mtime,
          checked_at, read, steps, result, raised, appVars>>

\* no call of the window check
WindowIdle ==
    /\ arg_last_run = None
    /\ arg_frequency = "daily"
    /\ arg_current_time = None
    /\ within = None

\* neither the tray application nor the CLI has started
BatchIdle ==
    /\ jobs = <<>>
    /\ app = "off"
    /\ job_rows = <<>>
    /\ current_statuses = <<>>
    /\ tray_icon = None
    /\ cycle = 0
    /\ arg_id = None
    /\ table = <<>>
    /\ output = None
    /\ last_call = None

\* no caller at work, no configuration file
AppIdle ==
    /\ WindowIdle
    /\ config = [kind |-> "missing"]
    /\ BatchIdle

NoJob == [name |-> "", frequency |-> "daily", log_pattern |-> "", process_pattern |-> ""]

\* time.time() / os.path.getmtime(): hours since the epoch
Timestamp(tick) == tick * TickHours

Exists(f) == fs[f] # None
Stat(f) == Get(fs[f])

Init ==
    /\ now = 0
    /\ proc_alive = FALSE
    /\ fs = [f \in Files |-> None]
    /\ pc = "idle"
    /\ job = NoJob
    /\ probe = None
    /\ running = FALSE
    /\ globbed = None
    /\ latest_file = None
    /\ mtime = None
    /\ checked_at = None
    /\ read = None
    /\ steps = <<>>
    /\ result = None
    /\ raised = None
    /\ AppIdle

\* ------------------------------------------------------------- environment
\* The environment acts at any moment of a call; a finished call is observed
\* (pc "done", "raised", "probed", "analyzed", "located") before anything else
\* happens.
Observed == pc \in {"done", "raised", "probed", "analyzed", "located"}

Tick ==
    /\ ~Observed
    /\ now < MaxTicks
    /\ now' = now + 1
    /\ UNCHANGED <<proc_alive, fs>>
    /\ UNCHANGED callVars
    /\ UNCHANGED appVars

ProcessStarts ==
    /\ ~Observed
    /\ ~proc_alive
    /\ proc_alive' = TRUE
    /\ UNCHANGED <<now, fs>>
    /\ UNCHANGED callVars
    /\ UNCHANGED appVars

ProcessExits ==
    /\ ~Observed
    /\ proc_alive
    /\ proc_alive' = FALSE
    /\ UNCHANGED <<now, fs>>
    /\ UNCHANGED callVars
    /\ UNCHANGED appVars

WriteFile(f, content) ==
    /\ ~Observed
    /\ fs' = [fs EXCEPT ![f] = Some([mtime |-> Timestamp(now), content |-> content])]
    /\ UNCHANGED <<now, proc_alive>>
    /\ UNCHANGED callVars
    /\ UNCHANGED appVars

DeleteFile(f) ==
    /\ ~Observed
    /\ Exists(f)
    /\ fs' = [fs EXCEPT ![f] = None]
    /\ UNCHANGED <<now, proc_alive>>
    /\ UNCHANGED callVars
    /\ UNCHANGED appVars

\* ------------------------------------------------------ the process query
\* What the pgrep query can answer in the current state: 0 only when a
\* matching process exists, 1 only when none does; it can fail at any time.
PgrepOutcomes ==
    { o \in QueryOutcomes :
        /\ (o.kind = "exit" /\ o.code = 0) => proc_alive
        /\ (o.kind = "exit" /\ o.code = 1) => ~proc_alive }

\* a direct call of is_job_running(pattern)
CallIsJobRunning(pattern, outcome) ==
    /\ pc = "idle"
    /\ outcome \in PgrepOutcomes
    /\ LET r == is_job_running(pattern, outcome)
       IN  /\ probe' = Some([pattern |-> pattern, outcome |-> outcome,
                             value |-> r.value])
           /\ steps' = IF r.queried THEN <<"pgrep">> ELSE <<>>
           /\ raised' = r.raised
    /\ pc' = "probed"
    /\ UNCHANGED <<job, running, globbed, latest_file, mtime, checked_at, read, result>>
    /\ UNCHANGED envVars
    /\ UNCHANGED appVars

\* ------------------------------------------- core.py 30-58: get_job_state
\* mutant: the result of the last call for the same job is kept and returned
StartEval_Cached(j) ==
    /\ pc = "idle"
    /\ job' = j
    /\ IF last_call # None /\ Get(last_call).job = j
       THEN pc' = "done" /\ result' = Some(Get(last_call).result)
       ELSE pc' = "probe" /\ result' = result
    /\ UNCHANGED <<probe, running, globbed, latest_file, mtime, checked_at, read, steps,
                   raised>>
    /\ UNCHANGED envVars
    /\ UNCHANGED appVars

StartEval(j) ==
    /\ pc = "idle"
    /\ pc' = "probe"
    /\ job' = j
    /\ UNCHANGED <<probe, running, globbed, latest_file, mtime, checked_at, read, steps,
                   result, raised>>
    /\ UNCHANGED envVars
    /\ UNCHANGED appVars

\* line 33: is_job_running(job.process_pattern)
Probe(outcome) ==
    /\ pc = "probe"
    /\ outcome \in PgrepOutcomes
    /\ LET r == is_job_running(Some(job.process_pattern), outcome)
       IN  /\ running' = r.value
           /\ steps' = IF r.queried THEN Append(steps, "pgrep") ELSE steps
           /\ IF r.raised # None
              THEN pc' = "raised" /\ raised' = r.raised
              ELSE pc' = "glob" /\ raised' = raised
    /\ UNCHANGED <<job, probe, globbed, latest_file, mtime, checked_at, read, result>>
    /\ UNCHANGED envVars
    /\ UNCHANGED appVars

\* mutant: the missing-log check comes before the RUNNING return
AfterLocate_MissingFirst(latest) ==
    IF latest = None
    THEN /\ result' = Some(JobState("MISSING", "No logs found", None, None))
         /\ latest_file' = latest
         /\ pc' = "done"
    ELSE IF running
    THEN /\ result' = Some(JobState("RUNNING", "Process active", latest, None))
         /\ latest_file' = latest
         /\ pc' = "done"
    ELSE /\ result' = result
         /\ latest_file' = latest
         /\ pc' = "getmtime"

\* mutant: no log file is reported as ERROR
AfterLocate_MissingAsError(latest) ==
    IF running
    THEN /\ result' = Some(JobState("RUNNING", "Process active", latest, None))
         /\ latest_file' = latest
         /\ pc' = "done"
    ELSE IF latest = None
    THEN /\ result' = Some(JobState("ERROR", "No logs found", None, None))
         /\ latest_file' = latest
         /\ pc' = "done"
    ELSE /\ result' = result
         /\ latest_file' = latest
         /\ pc' = "getmtime"

\* lines 33-43, once get_latest_log_file has returned `latest`: RUNNING when
\* the probe answered true, MISSING when there is no file, else go on.
AfterLocate(latest) ==
    IF running
    THEN /\ result' = Some(JobState("RUNNING", "Process active", latest, None))
         /\ latest_file' = latest
         /\ pc' = "done"
    ELSE IF latest = None
    THEN /\ result' = Some(JobState("MISSING", "No logs found", None, None))
         /\ latest_file' = latest
         /\ pc' = "done"
    ELSE /\ result' = result
         /\ latest_file' = latest
         /\ pc' = "getmtime"

\* line 64: files = glob.glob(log_pattern); line 65 returns None for no file
Glob ==
    /\ pc = "glob"
    /\ steps' = Append(steps, "glob")
    /\ globbed' = Some({f \in Files : Exists(f)})
    /\ IF {f \in Files : Exists(f)} = {}
       THEN AfterLocate(None)
       ELSE pc' = "max" /\ UNCHANGED <<latest_file, result>>
    /\ UNCHANGED <<job, probe, running, mtime, checked_at, read, raised>>
    /\ UNCHANGED envVars
    /\ UNCHANGED appVars

\* mutant: min instead of max
LatestOf_Oldest(files) == {f \in files : \A g \in files : Stat(f).mtime <= Stat(g).mtime}

\* the files max(files, key=os.path.getmtime) can return: those of greatest
\* modification time (the list order decides between equal ones)
LatestOf(files) == {f \in files : \A g \in files : Stat(g).mtime <= Stat(f).mtime}

\* line 65: max(files, key=os.path.getmtime); getmtime raises for a file that
\* is gone since the glob
MaxMtime ==
    /\ pc = "max"
    /\ steps' = Append(steps, "stat")
    /\ IF \E f \in Get(globbed) : ~Exists(f)
       THEN /\ pc' = "raised"
            /\ raised' = Some("FileNotFoundError")
            /\ UNCHANGED <<latest_file, result>>
       ELSE /\ raised' = raised
            /\ \E f \in LatestOf(Get(globbed)) : AfterLocate(Some(f))
    /\ UNCHANGED <<job, probe, running, globbed, mtime, checked_at, read>>
    /\ UNCHANGED envVars
    /\ UNCHANGED appVars

\* mutant: the content is read right after the modification time, the window
\* is not looked at
GetMtime_SkipWindow ==
    /\ pc = "getmtime"
    /\ steps' = Append(steps, "stat")
    /\ IF Exists(Get(latest_file))
       THEN /\ mtime' = Some(FromTimestamp(Stat(Get(latest_file)).mtime))
            /\ pc' = "read"
            /\ raised' = raised
       ELSE /\ mtime' = mtime
            /\ pc' = "raised"
            /\ raised' = Some("FileNotFoundError")
    /\ UNCHANGED <<job, probe, running, globbed, latest_file, checked_at, read, result>>
    /\ UNCHANGED envVars
    /\ UNCHANGED appVars

\* line 45: datetime.fromtimestamp(os.path.getmtime(latest_file))
GetMtime ==
    /\ pc = "getmtime"
    /\ steps' = Append(steps, "stat")
    /\ IF Exists(Get(latest_file))
       THEN /\ mtime' = Some(FromTimestamp(Stat(Get(latest_file)).mtime))
            /\ pc' = "window"
            /\ raised' = raised
       ELSE /\ mtime' = mtime
            /\ pc' = "raised"
            /\ raised' = Some("FileNotFoundError")
    /\ UNCHANGED <<job, probe, running, globbed, latest_file, checked_at, read, result>>
    /\ UNCHANGED envVars
    /\ UNCHANGED appVars

\* mutant: the STALE return is missing, the content is always classified
Window_NeverStale ==
    /\ pc = "window"
    /\ steps' = Append(steps, "now")
    /\ checked_at' = Some(FromTimestamp(Timestamp(now)))
    /\ result' = result
    /\ pc' = "read"
    /\ UNCHANGED <<job, probe, running, globbed, latest_file, mtime, read, raised>>
    /\ UNCHANGED envVars
    /\ UNCHANGED appVars

\* lines 47-56: the window check, with datetime.now() read inside it
Window ==
    /\ pc = "window"
    /\ steps' = Append(steps, "now")
    /\ checked_at' = Some(FromTimestamp(Timestamp(now)))
    /\ IF ~is_execution_within_current_interval(
              Get(mtime), job.frequency, None, FromTimestamp(Timestamp(now)))
       THEN /\ result' = Some(JobState("STALE", "Pending", latest_file, mtime))
            /\ pc' = "done"
       ELSE /\ result' = result
            /\ pc' = "read"
    /\ UNCHANGED <<job, probe, running, globbed, latest_file, mtime, read, raised>>
    /\ UNCHANGED envVars
    /\ UNCHANGED appVars

\* open(filepath, "r", errors="replace").read() in the current file system;
\* permitted: the monitor may read the file
OpenRead(f, permitted) ==
    IF ~Exists(f) THEN ReadFails("[Errno 2] No such file or directory")
    ELSE IF ~permitted THEN ReadFails("[Errno 13] Permission denied")
    ELSE ReadOk(Stat(f).content)

\* line 58: return _analyze_log_file(latest_file, last_log_modification_time)
Read(permitted) ==
    /\ pc = "read"
    /\ steps' = Append(steps, "open")
    /\ read' = Some(OpenRead(Get(latest_file), permitted))
    /\ result' = Some(analyze_log_file(Get(latest_file), Get(mtime),
                                       OpenRead(Get(latest_file), permitted)))
    /\ pc' = "done"
    /\ UNCHANGED <<job, probe, running, globbed, latest_file, mtime, checked_at, raised>>
    /\ UNCHANGED envVars
    /\ UNCHANGED appVars

\* the caller has the outcome; the next call starts afresh
Finish ==
    /\ Observed
    /\ pc' = "idle"
    /\ job' = NoJob
    /\ probe' = None
    /\ running' = FALSE
    /\ globbed' = None
    /\ latest_file' = None
    /\ mtime' = None
    /\ checked_at' = None
    /\ read' = None
    /\ steps' = <<>>
    /\ result' = None
    /\ raised' = None
    /\ UNCHANGED envVars
    /\ UNCHANGED appVars

Next ==
    \/ Tick
    \/ ProcessStarts
    \/ ProcessExits
    \/ \E f \in Files, c \in LogContents : WriteFile(f, c)
    \/ \E f \in Files : DeleteFile(f)
    \/ \E p \in Patterns, o \in QueryOutcomes : CallIsJobRunning(p, o)
    \/ \E j \in Jobs : StartEval(j)
    \/ \E o \in QueryOutcomes : Probe(o)
    \/ Glob
    \/ MaxMtime
    \/ GetMtime
    \/ Window
    \/ \E permitted \in BOOLEAN : Read(permitted)
    \/ Finish

Spec == Init /\ [][Next]_vars

\* ------------------------------------------- _analyze_log_file called alone
\* The pieces of a log text: the three markers and other text.
TextPieces == {MARKER_FAILED, MARKER_SUCCESS, MARKER_STARTED, "Processing..."}

\* every text of at most MaxLogLen pieces, the markers in every order
LogTexts == UNION {[1..n -> TextPieces] : n \in 0..MaxLogLen}

\* a direct call of _analyze_log_file(filepath, modification_time)
CallAnalyze(filepath, modification_time, permitted) ==
    /\ pc = "idle"
    /\ latest_file' = Some(filepath)
    /\ mtime' = Some(modification_time)
    /\ steps' = <<"open">>
    /\ read' = Some(OpenRead(filepath, permitted))
    /\ result' = Some(analyze_log_file(filepath, modification_time,
                                       OpenRead(filepath, permitted)))
    /\ pc' = "analyzed"
    /\ UNCHANGED <<job, probe, running, globbed, checked_at, raised>>
    /\ UNCHANGED envVars
    /\ UNCHANGED appVars

\* One log file holding any text, or no file at all.
InitAnalyze ==
    /\ now \in 0..MaxTicks
    /\ proc_alive = FALSE
    /\ \E f \in Files :
         \/ fs = [g \in Files |-> None]
         \/ \E text \in LogTexts :
              fs = [g \in Files |->
                      IF g = f THEN Some([mtime |-> Timestamp(now), content |-> text])
                      ELSE None]
    /\ pc = "idle"
    /\ job = NoJob
    /\ probe = None
    /\ running = FALSE
    /\ globbed = None
    /\ latest_file = None
    /\ mtime = None
    /\ checked_at = None
    /\ read = None
    /\ steps = <<>>
    /\ result = None
    /\ raised = None
    /\ AppIdle

NextAnalyze ==
    \/ \E f \in Files, t \in 0..MaxTicks, permitted \in BOOLEAN :
          CallAnalyze(f, FromTimestamp(Timestamp(t)), permitted)
    \/ Finish

SpecAnalyze == InitAnalyze /\ [][NextAnalyze]_vars

\* ------------------------- is_execution_within_current_interval called alone
\* The days around three turns of the year (2024 is a leap year, 2026 has an
\* ISO week 53), each at the first and the last hour of the day.
WindowDays ==
    { Ymd2Ord(y, 12, 31) + d : y \in 2024..2026, d \in (0 - DaySpan)..DaySpan }

DateTimeAt(ord, hour) ==
    [year |-> Ord2Ymd(ord).year, month |-> Ord2Ymd(ord).month,
     day |-> Ord2Ymd(ord).day, hour |-> hour]

WindowTimes == { DateTimeAt(ord, hour) : ord \in WindowDays, hour \in {0, 23} }

\* the frequency tags of the calls: the three of JobFrequency and an unknown one
FrequencyTags == JobFrequency \cup {"invalid_frequency"}

\* a direct call of is_execution_within_current_interval
CallWindow ==
    /\ pc = "idle"
    /\ within = None
    /\ within' = Some(is_execution_within_current_interval(
                          arg_last_run, arg_frequency, arg_current_time,
                          FromTimestamp(Timestamp(now))))
    /\ checked_at' = IF arg_current_time = None
                     THEN Some(FromTimestamp(Timestamp(now))) ELSE checked_at
    /\ pc' = "windowed"
    /\ UNCHANGED <<arg_last_run, arg_frequency, arg_current_time, config, jobs, app,
                   trayVars, cliVars>>
    /\ UNCHANGED <<job, probe, running, globbed, latest_file, mtime, read, steps,
                   result, raised>>
    /\ UNCHANGED last_call
    /\ UNCHANGED envVars

\* Any two times with any tag, the reference time given; or a time of the
\* wall clock's range with the reference time left to datetime.now().
InitWindow ==
    /\ proc_alive = FALSE
    /\ fs = [f \in Files |-> None]
    /\ pc = "idle"
    /\ job = NoJob
    /\ probe = None
    /\ running = FALSE
    /\ globbed = None
    /\ latest_file = None
    /\ mtime = None
    /\ checked_at = None
    /\ read = None
    /\ steps = <<>>
    /\ result = None
    /\ raised = None
    /\ within = None
    /\ config = [kind |-> "missing"]
    /\ BatchIdle
    /\ arg_frequency \in FrequencyTags
    /\ \/ /\ now = 0
          /\ arg_last_run \in WindowTimes
          /\ arg_current_time \in {Some(t) : t \in WindowTimes}
       \/ /\ now \in 0..MaxTicks
          /\ arg_last_run \in {FromTimestamp(Timestamp(t)) : t \in 0..MaxTicks}
          /\ arg_current_time = None

NextWindow == CallWindow

SpecWindow == InitWindow /\ [][NextWindow]_vars

\* --------------------------- core.py 61-65: get_latest_log_file called alone
StartLocate(j) ==
    /\ pc = "idle"
    /\ pc' = "locate_glob"
    /\ job' = j
    /\ UNCHANGED <<probe, running, globbed, latest_file, mtime, checked_at, read, steps,
                   result, raised>>
    /\ UNCHANGED envVars
    /\ UNCHANGED appVars

\* line 64: files = glob.glob(log_pattern); line 65 returns None for no file
LocateGlob ==
    /\ pc = "locate_glob"
    /\ steps' = Append(steps, "glob")
    /\ globbed' = Some({f \in Files : Exists(f)})
    /\ pc' = IF {f \in Files : Exists(f)} = {} THEN "located" ELSE "locate_max"
    /\ UNCHANGED <<job, probe, running, latest_file, mtime, checked_at, read, result,
                   raised>>
    /\ UNCHANGED envVars
    /\ UNCHANGED appVars

\* line 65: return max(files, key=os.path.getmtime); getmtime raises for a
\* file that is gone since the glob
LocateMax ==
    /\ pc = "locate_max"
    /\ steps' = Append(steps, "stat")
    /\ IF \E f \in Get(globbed) : ~Exists(f)
       THEN /\ pc' = "raised"
            /\ raised' = Some("FileNotFoundError")
            /\ latest_file' = latest_file
       ELSE /\ pc' = "located"
            /\ raised' = raised
            /\ \E f \in LatestOf(Get(globbed)) : latest_file' = Some(f)
    /\ UNCHANGED <<job, probe, running, globbed, mtime, checked_at, read, result>>
    /\ UNCHANGED envVars
    /\ UNCHANGED appVars

NextLocate ==
    \/ Tick
    \/ \E f \in Files, c \in LogContents : WriteFile(f, c)
    \/ \E f \in Files : DeleteFile(f)
    \/ \E j \in Jobs : StartLocate(j)
    \/ LocateGlob
    \/ LocateMax
    \/ Finish

SpecLocate == Init /\ [][NextLocate]_vars

\* ------------------------------------------------ core.py 19-27: load_jobs
\* The jobs of a batch: two daily jobs and a weekly one between them, all
\* logging under one pattern.
BatchJob(name, frequency, process_pattern) ==
    [name |-> name, frequency |-> frequency,
     log_pattern |-> "/var/log/backup-*.log", process_pattern |-> process_pattern]

DailyBackup == BatchJob("Daily Backup", "daily", "backup_script.py")
WeeklyReport == BatchJob("Weekly Report", "weekly", "")
DailySync == BatchJob("Daily Sync", "daily", "")
MonthlyCleanup == BatchJob("Monthly Cleanup", "monthly", "")

\* the record of jobs.json that gives a Job: every field present
RecordOf(j) ==
    [name |-> Some(j.name), frequency |-> Some(j.frequency),
     log_pattern |-> Some(j.log_pattern), process_pattern |-> Some(j.process_pattern)]

\* The records of a jobs.json: the three jobs, a record without the two
\* patterns, and a record with a frequency that JobFrequency does not have.
IncompleteRecord ==
    [name |-> Some("Incomplete Job"), frequency |-> Some("daily"),
     log_pattern |-> None, process_pattern |-> None]

HourlyRecord ==
    [name |-> Some("Hourly Check"), frequency |-> Some("hourly"),
     log_pattern |-> Some("/var/log/backup-*.log"), process_pattern |-> Some("")]

Records ==
    {RecordOf(DailyBackup), RecordOf(WeeklyReport), RecordOf(DailySync),
     IncompleteRecord, HourlyRecord}

\* What JOBS_FILE holds: nothing (no file), text that is not JSON, an object
\* without a "jobs" key, or an object whose "jobs" is a list of records.
Configs ==
    {[kind |-> "missing"], [kind |-> "invalid_json"], [kind |-> "no_jobs_key"]}
        \cup {[kind |-> "jobs", records |-> r] :
                 r \in UNION {[1..n -> Records] : n \in 0..MaxRecords}}

\* Job(**record) validates: the four fields are required, frequency is a
\* JobFrequency
Validates(record) ==
    /\ record.name # None
    /\ record.frequency # None
    /\ record.log_pattern # None
    /\ record.process_pattern # None
    /\ Get(record.frequency) \in JobFrequency

\* Job(**record) of a record that validates
JobOf(record) ==
    [name |-> Get(record.name), frequency |-> Get(record.frequency),
     log_pattern |-> Get(record.log_pattern),
     process_pattern |-> Get(record.process_pattern)]

\* core.py 19-27: open or json.load raising, and Job(**job) raising for any
\* record of the list, all end in the except branch that returns [].
load_jobs(file) ==
    IF file.kind \in {"missing", "invalid_json"} THEN <<>>
    ELSE IF file.kind = "no_jobs_key" THEN <<>>
    ELSE IF \E i \in 1..Len(file.records) : ~Validates(file.records[i]) THEN <<>>
    ELSE [i \in 1..Len(file.records) |-> JobOf(file.records[i])]

\* a direct call of load_jobs()
CallLoadJobs ==
    /\ app = "off"
    /\ pc = "idle"
    /\ jobs' = load_jobs(config)
    /\ app' = "loaded"
    /\ UNCHANGED <<winVars, config, job_rows, current_statuses, tray_icon, cycle,
                   cliVars>>
    /\ UNCHANGED callVars
    /\ UNCHANGED last_call
    /\ UNCHANGED envVars

\* any configuration file, nothing else going on
InitLoad ==
    /\ now = 0
    /\ proc_alive = FALSE
    /\ fs = [f \in Files |-> None]
    /\ pc = "idle"
    /\ job = NoJob
    /\ probe = None
    /\ running = FALSE
    /\ globbed = None
    /\ latest_file = None
    /\ mtime = None
    /\ checked_at = None
    /\ read = None
    /\ steps = <<>>
    /\ result = None
    /\ raised = None
    /\ WindowIdle
    /\ config \in Configs
    /\ BatchIdle

NextLoad == CallLoadJobs

SpecLoad == InitLoad /\ [][NextLoad]_vars

\* the JobState a finished get_job_state call returned
Returned == Get(result)

\* ------------------------------------------ tray_app.py: the tray application
TRAY_ICON_SUCCESS == "emblem-default"
TRAY_ICON_WARN == "emblem-synchronizing"
TRAY_ICON_FAIL == "emblem-important"

FAIL_STATUSES == {"FAILED", "CRASHED", "ERROR"}
WARN_STATUSES == {"STALE", "MISSING", "UNKNOWN"}

\* mutant: the warning statuses are looked for first
get_global_app_status_WarnFirst(statuses) ==
    IF \E i \in 1..Len(statuses) : statuses[i] \in WARN_STATUSES
    THEN [icon |-> TRAY_ICON_WARN, description |-> "Warnings present"]
    ELSE IF \E i \in 1..Len(statuses) : statuses[i] \in FAIL_STATUSES
    THEN [icon |-> TRAY_ICON_FAIL, description |-> "Job failure detected"]
    ELSE [icon |-> TRAY_ICON_SUCCESS, description |-> "All systems operational"]

\* tray_app.py 191-199
get_global_app_status(statuses) ==
    IF \E i \in 1..Len(statuses) : statuses[i] \in FAIL_STATUSES
    THEN [icon |-> TRAY_ICON_FAIL, description |-> "Job failure detected"]
    ELSE IF \E i \in 1..Len(statuses) : statuses[i] \in WARN_STATUSES
    THEN [icon |-> TRAY_ICON_WARN, description |-> "Warnings present"]
    ELSE [icon |-> TRAY_ICON_SUCCESS, description |-> "All systems operational"]

\* mutant: a job joins its group at the front
RECURSIVE Grouped_Prepend(_, _)
Grouped_Prepend(list, n) ==
    IF n = 0 THEN <<>>
    ELSE LET groups == Grouped_Prepend(list, n - 1)
             j == list[n]
         IN  IF \E g \in 1..Len(groups) : groups[g].frequency = j.frequency
             THEN [g \in 1..Len(groups) |->
                      IF groups[g].frequency = j.frequency
                      THEN [groups[g] EXCEPT !.jobs = <<j>> \o @]
                      ELSE groups[g]]
             ELSE Append(groups, [frequency |-> j.frequency, jobs |-> <<j>>])

\* tray_app.py 184-188 after the first n jobs of the list: the dict as the
\* sequence of its items, in insertion order
RECURSIVE Grouped(_, _)
Grouped(list, n) ==
    IF n = 0 THEN <<>>
    ELSE LET groups == Grouped(list, n - 1)
             j == list[n]
         IN  IF \E g \in 1..Len(groups) : groups[g].frequency = j.frequency
             THEN [g \in 1..Len(groups) |->
                      IF groups[g].frequency = j.frequency
                      THEN [groups[g] EXCEPT !.jobs = Append(@, j)]
                      ELSE groups[g]]
             ELSE Append(groups, [frequency |-> j.frequency, jobs |-> <<j>>])

group_jobs_by_frequency(list) == Grouped(list, Len(list))

\* JobRow(job, open_log): the row shows "Initializing <name>" until its first
\* update; state is the JobState of the last update, shown the cycle of it.
JobRow(j) == [job |-> j, state |-> None, shown |-> 0]

\* the jobs of the first n groups, group after group
RECURSIVE RowsOf(_, _)
RowsOf(groups, n) ==
    IF n = 0 THEN <<>>
    ELSE RowsOf(groups, n - 1)
            \o [k \in 1..Len(groups[n].jobs) |-> JobRow(groups[n].jobs[k])]

\* tray_app.py 52-71: the JobRows appended to self.job_rows (and, each under
\* the header of its group, to the menu)
build_menu(list) ==
    RowsOf(group_jobs_by_frequency(list), Len(group_jobs_by_frequency(list)))

\* the locals of a finished get_job_state call are gone
CallEnds ==
    /\ pc' = "idle"
    /\ job' = NoJob
    /\ probe' = None
    /\ running' = FALSE
    /\ globbed' = None
    /\ latest_file' = None
    /\ mtime' = None
    /\ checked_at' = None
    /\ read' = None
    /\ steps' = <<>>
    /\ result' = None
    /\ raised' = None

\* tray_app.py 38-48 and 94-97: do_startup up to the first get_job_state call
\* of refresh_jobs
do_startup ==
    /\ app = "off"
    /\ pc = "idle"
    /\ jobs' = load_jobs(config)
    /\ job_rows' = build_menu(load_jobs(config))
    /\ tray_icon' = Some([icon |-> TRAY_ICON_SUCCESS, description |-> ""])
    /\ current_statuses' = <<>>
    /\ cycle' = 1
    /\ app' = "refreshing"
    /\ UNCHANGED <<winVars, config, cliVars>>
    /\ UNCHANGED callVars
    /\ UNCHANGED last_call
    /\ UNCHANGED envVars

\* tray_app.py 90-97: the 60 s timer fires, refresh_jobs starts
on_timer_tick ==
    /\ app = "started"
    /\ pc = "idle"
    /\ cycle < MaxCycles
    /\ current_statuses' = <<>>
    /\ cycle' = cycle + 1
    /\ app' = "refreshing"
    /\ UNCHANGED <<winVars, config, jobs, job_rows, tray_icon, cliVars>>
    /\ UNCHANGED callVars
    /\ UNCHANGED last_call
    /\ UNCHANGED envVars

\* line 99: core.get_job_state(row.job) for the next row
RefreshEvaluates ==
    /\ app = "refreshing"
    /\ Len(current_statuses) < Len(job_rows)
    /\ StartEval(job_rows[Len(current_statuses) + 1].job)

\* lines 98-100 and JobRow.update (151-175): the row takes the JobState and
\* its status joins the list
RowUpdate ==
    /\ app = "refreshing"
    /\ pc = "done"
    /\ job_rows' = [job_rows EXCEPT ![Len(current_statuses) + 1] =
                       [@ EXCEPT !.state = result, !.shown = cycle]]
    /\ current_statuses' = Append(current_statuses, Returned.status)
    /\ CallEnds
    /\ UNCHANGED <<winVars, config, jobs, app, tray_icon, cycle, cliVars>>
    /\ UNCHANGED last_call
    /\ UNCHANGED envVars

\* lines 98-100: get_job_state raised; nothing catches it in refresh_jobs,
\* _on_timer_tick or do_startup
RefreshRaises ==
    /\ app = "refreshing"
    /\ pc = "raised"
    /\ app' = "crashed"
    /\ CallEnds
    /\ UNCHANGED <<winVars, config, jobs, trayVars, cliVars>>
    /\ UNCHANGED last_call
    /\ UNCHANGED envVars

\* lines 102-103, then line 50 or line 92: the icon of the cycle is set
RefreshEnds ==
    /\ app = "refreshing"
    /\ pc = "idle"
    /\ Len(current_statuses) = Len(job_rows)
    /\ tray_icon' = Some(get_global_app_status(current_statuses))
    /\ app' = "started"
    /\ UNCHANGED <<winVars, config, jobs, job_rows, current_statuses, cycle, cliVars>>
    /\ UNCHANGED callVars
    /\ UNCHANGED last_call
    /\ UNCHANGED envVars

\* ------------------------------------------------- cli.py 17-61: the CLI
\* the ids the CLI is started with: none, 0, a row number, one past the rows
Ids == {None} \cup {Some(k) : k \in 0..(MaxRecords + 1)}

\* cli.py 17-36: the arguments are parsed and the jobs loaded; `if args.id`
\* is false without an id and for id 0; jobs[args.id - 1] raises IndexError
\* past the end of the list
main(id) ==
    /\ app = "off"
    /\ pc = "idle"
    /\ arg_id' = id
    /\ jobs' = load_jobs(config)
    /\ app' = IF id = None \/ id = Some(0) THEN "cli_table"
              ELSE IF Get(id) \in 1..Len(load_jobs(config)) THEN "cli_view"
              ELSE "cli_index_error"
    /\ UNCHANGED <<winVars, config, trayVars, table, output>>
    /\ UNCHANGED callVars
    /\ UNCHANGED last_call
    /\ UNCHANGED envVars

\* cli.py 38-39 and 66: check_job(job) calls get_job_state for the next job
check_job ==
    /\ app = "cli_table"
    /\ Len(table) < Len(jobs)
    /\ StartEval(jobs[Len(table) + 1])

\* cli.py 68-71 and 40: the row of the job joins the table
AddRow ==
    /\ app = "cli_table"
    /\ pc = "done"
    /\ table' = Append(table, [number |-> Len(table) + 1,
                               status |-> Returned.status,
                               name |-> job.name,
                               details |-> Returned.message])
    /\ CallEnds
    /\ UNCHANGED <<winVars, config, jobs, app, trayVars, arg_id, output>>
    /\ UNCHANGED last_call
    /\ UNCHANGED envVars

\* cli.py 42: console.print(table)
PrintTable ==
    /\ app = "cli_table"
    /\ pc = "idle"
    /\ Len(table) = Len(jobs)
    /\ output' = Some([kind |-> "table", rows |-> table])
    /\ app' = "cli_done"
    /\ UNCHANGED <<winVars, config, jobs, trayVars, arg_id, table>>
    /\ UNCHANGED callVars
    /\ UNCHANGED last_call
    /\ UNCHANGED envVars

\* cli.py 30 and 47: view_log(job=jobs[args.id - 1]) calls get_job_state
view_log ==
    /\ app = "cli_view"
    /\ StartEval(jobs[Get(arg_id)])

\* cli.py 48-61: the log of the job is opened in less, or reported as not found
ShowLog ==
    /\ app = "cli_view"
    /\ pc = "done"
    /\ output' = Some([kind |-> "log", name |-> job.name, file |-> Returned.file])
    /\ app' = "cli_done"
    /\ CallEnds
    /\ UNCHANGED <<winVars, config, jobs, trayVars, arg_id, table>>
    /\ UNCHANGED last_call
    /\ UNCHANGED envVars

\* get_job_state raised; nothing catches it in check_job, view_log or main
CliRaises ==
    /\ app \in {"cli_table", "cli_view"}
    /\ pc = "raised"
    /\ app' = "cli_crashed"
    /\ CallEnds
    /\ UNCHANGED <<winVars, config, jobs, trayVars, cliVars>>
    /\ UNCHANGED last_call
    /\ UNCHANGED envVars

\* ------------------------------------------------------------ the batches
\* the steps of the get_job_state call in progress
EvalSteps ==
    \/ \E o \in QueryOutcomes : Probe(o)
    \/ Glob
    \/ MaxMtime
    \/ GetMtime
    \/ Window
    \/ \E permitted \in BOOLEAN : Read(permitted)

\* the steps of the tray application and of the CLI
BatchSteps ==
    \/ do_startup
    \/ on_timer_tick
    \/ RefreshEvaluates
    \/ RowUpdate
    \/ RefreshEnds
    \/ \E id \in Ids : main(id)
    \/ check_job
    \/ AddRow
    \/ PrintTable
    \/ view_log
    \/ ShowLog

\* Two jobs, the first with a process pattern, and the logs written, replaced
\* and deleted while the batch is evaluated.
InitTray ==
    /\ now = 0
    /\ proc_alive = FALSE
    /\ fs = [f \in Files |-> None]
    /\ pc = "idle"
    /\ job = NoJob
    /\ probe = None
    /\ running = FALSE
    /\ globbed = None
    /\ latest_file = None
    /\ mtime = None
    /\ checked_at = None
    /\ read = None
    /\ steps = <<>>
    /\ result = None
    /\ raised = None
    /\ WindowIdle
    /\ config = [kind |-> "jobs",
                 records |-> <<RecordOf(DailyBackup), RecordOf(WeeklyReport)>>]
    /\ BatchIdle

\* the log a job run leaves: started and succeeded
TrayLog == <<MARKER_STARTED, "Processing...", MARKER_SUCCESS>>

NextTray ==
    \/ ProcessStarts
    \/ ProcessExits
    \/ \E f \in Files : WriteFile(f, TrayLog)
    \/ \E f \in Files : DeleteFile(f)
    \/ BatchSteps
    \/ EvalSteps
    \/ RefreshRaises
    \/ CliRaises

SpecTray == InitTray /\ [][NextTray]_vars

\* Any configuration file; the job's process is running and has written one
\* complete log, and nothing else touches them.
InitMenu ==
    /\ now = 0
    /\ proc_alive = TRUE
    /\ \E f \in Files :
          fs = [g \in Files |->
                  IF g = f THEN Some([mtime |-> Timestamp(0), content |-> TrayLog])
                  ELSE None]
    /\ pc = "idle"
    /\ job = NoJob
    /\ probe = None
    /\ running = FALSE
    /\ globbed = None
    /\ latest_file = None
    /\ mtime = None
    /\ checked_at = None
    /\ read = None
    /\ steps = <<>>
    /\ result = None
    /\ raised = None
    /\ WindowIdle
    /\ config \in Configs
    /\ BatchIdle

NextMenu ==
    \/ BatchSteps
    \/ EvalSteps

SpecMenu == InitMenu /\ [][NextMenu]_vars

\* ------------------------------------------ get_job_state called repeatedly
\* what the call in progress has observed: the probe's answer, the files the
\* glob matched, the latest of them and its modification time, the wall
\* clock, the content read
Facts ==
    [running |-> running, globbed |-> globbed, latest_file |-> latest_file,
     mtime |-> mtime, checked_at |-> checked_at, read |-> read]

\* the caller keeps what the call returned, with what the call had observed
Return ==
    /\ pc = "done"
    /\ last_call' = Some([job |-> job, facts |-> Facts, result |-> Returned])
    /\ CallEnds
    /\ UNCHANGED <<winVars, config, jobs, app, trayVars, cliVars>>
    /\ UNCHANGED envVars

\* the jobs evaluated again and again: one with a process pattern, one without
RepeatJobs == {DailyBackup, WeeklyReport}

\* Calls of get_job_state one after the other, the job's process and its
\* logs changing meanwhile; a caller keeps the outcome of a call or drops it.
NextRepeat ==
    \/ Tick
    \/ ProcessStarts
    \/ ProcessExits
    \/ \E f \in Files : WriteFile(f, TrayLog)
    \/ \E f \in Files : DeleteFile(f)
    \/ \E j \in RepeatJobs : StartEval(j)
    \/ EvalSteps
    \/ Return
    \/ Finish

SpecRepeat == Init /\ [][NextRepeat]_vars

\* ------------------------------------------------ an external query hangs
\* subprocess.call (core.py 75-79), glob.glob and os.path.getmtime (64-65,
\* 45) and open/read (109-110) are called without a timeout: a query that
\* never answers leaves the call where it is, and nothing else runs in the
\* thread of the caller.
Hangs ==
    /\ \/ pc = "probe" /\ job.process_pattern # ""
       \/ pc \in {"glob", "max", "getmtime", "read"}
    /\ pc' = "hung"
    /\ UNCHANGED <<job, probe, running, globbed, latest_file, mtime, checked_at, read,
                   steps, result, raised>>
    /\ UNCHANGED envVars
    /\ UNCHANGED appVars

\* Two jobs, the first one's process running, one complete log.
InitHang ==
    /\ now = 0
    /\ proc_alive = TRUE
    /\ \E f \in Files :
          fs = [g \in Files |->
                  IF g = f THEN Some([mtime |-> Timestamp(0), content |-> TrayLog])
                  ELSE None]
    /\ pc = "idle"
    /\ job = NoJob
    /\ probe = None
    /\ running = FALSE
    /\ globbed = None
    /\ latest_file = None
    /\ mtime = None
    /\ checked_at = None
    /\ read = None
    /\ steps = <<>>
    /\ result = None
    /\ raised = None
    /\ WindowIdle
    /\ config = [kind |-> "jobs",
                 records |-> <<RecordOf(DailyBackup), RecordOf(WeeklyReport)>>]
    /\ BatchIdle

NextHang ==
    \/ BatchSteps
    \/ EvalSteps
    \/ Hangs

\* The application takes its next step whenever it has one.
SpecHang == InitHang /\ [][NextHang]_vars /\ WF_vars(NextHang)

\* ------------------------------------------------- the icon of a refresh
\* the job lists of the refreshes: none, and a daily and a monthly job in
\* both orders
IconLists ==
    {<<>>, <<DailyBackup, MonthlyCleanup>>, <<MonthlyCleanup, DailyBackup>>}

\* It is Monday 2026-08-31; the job's process runs or not; there is no log,
\* or one log of any content written today or on Sunday (stale for the daily
\* job, fresh for the monthly one). Nothing changes during the refreshes.
InitIcon ==
    /\ now = 1
    /\ proc_alive \in BOOLEAN
    /\ \/ fs = [g \in Files |-> None]
       \/ \E f \in Files, t \in 0..1, c \in LogContents :
             fs = [g \in Files |->
                     IF g = f THEN Some([mtime |-> Timestamp(t), content |-> c])
                     ELSE None]
    /\ pc = "idle"
    /\ job = NoJob
    /\ probe = None
    /\ running = FALSE
    /\ globbed = None
    /\ latest_file = None
    /\ mtime = None
    /\ checked_at = None
    /\ read = None
    /\ steps = <<>>
    /\ result = None
    /\ raised = None
    /\ WindowIdle
    /\ \E list \in IconLists :
          config = [kind |-> "jobs",
                    records |-> [k \in 1..Len(list) |-> RecordOf(list[k])]]
    /\ BatchIdle

NextIcon ==
    \/ do_startup
    \/ on_timer_tick
    \/ RefreshEvaluates
    \/ RowUpdate
    \/ RefreshEnds
    \/ EvalSteps

SpecIcon == InitIcon /\ [][NextIcon]_vars

\* ------------------------------------------------------------------ claims
\* the recurrence window of the specification: same calendar date, same ISO
\* (year, week), same (year, month)
SameWindow(frequency, last_run, current_time) ==
    CASE frequency = "daily" ->
            /\ last_run.year = current_time.year
            /\ last_run.month = current_time.month
            /\ last_run.day = current_time.day
      [] frequency = "weekly" -> IsoCalendar2(last_run) = IsoCalendar2(current_time)
      [] frequency = "monthly" ->
            /\ last_run.year = current_time.year
            /\ last_run.month = current_time.month

\* C1: whenever the liveness probe answered true, get_job_state returns RUNNING
\* with message "Process active", whatever the logs are.
C1_RunningWhenProbeTrue ==
    (pc = "done" /\ running) =>
        (Returned.status = "RUNNING" /\ Returned.message = "Process active")

\* C1 witness: RUNNING is returned while the latest log holds the failure marker.
C1_Witness ==
    /\ pc = "done"
    /\ running
    /\ Returned.status = "RUNNING"
    /\ latest_file # None
    /\ Exists(Get(latest_file))
    /\ Contains(Stat(Get(latest_file)).content, MARKER_FAILED)

\* C2: process not running and the latest log's modification time outside the
\* job's window at the moment of the check: the result is STALE, "Pending", with
\* the log path and that modification time, whatever the log contains.
C2_StaleBeforeContent ==
    (/\ pc = "done"
     /\ ~running
     /\ mtime # None
     /\ checked_at # None
     /\ ~SameWindow(job.frequency, Get(mtime), Get(checked_at)))
        => result = Some(JobState("STALE", "Pending", latest_file, mtime))

\* C2 witness: a daily job's log of an earlier day holds the success marker and
\* the result is STALE.
C2_Witness ==
    /\ pc = "done"
    /\ job.frequency = "daily"
    /\ Returned.status = "STALE"
    /\ Exists(Get(latest_file))
    /\ Contains(Stat(Get(latest_file)).content, MARKER_SUCCESS)

\* C3: a readable content with the failure marker classifies as FAILED, "Failed",
\* whatever else it holds and in whatever order; SUCCESS, "Finished", is returned
\* only for a content with the success marker and without the failure marker.
C3_FailedHasPriority ==
    (pc = "analyzed" /\ Get(read).ok) =>
        LET content == Stat(Get(latest_file)).content
        IN  /\ Contains(content, MARKER_FAILED) =>
                (Returned.status = "FAILED" /\ Returned.message = "Failed")
            /\ Returned.status = "SUCCESS" =>
                /\ Returned.message = "Finished"
                /\ Contains(content, MARKER_SUCCESS)
                /\ ~Contains(content, MARKER_FAILED)

\* C3 witness: the failure marker comes first, the success marker after it, and
\* the result is FAILED.
C3_Witness ==
    /\ pc = "analyzed"
    /\ Get(read).ok
    /\ Len(Get(read).content) >= 2
    /\ Get(read).content[1] = MARKER_FAILED
    /\ Get(read).content[2] = MARKER_SUCCESS
    /\ Returned.status = "FAILED"

\* C4: a readable content with neither the failure nor the success marker
\* classifies as CRASHED, "Crashed", when it holds the start marker and as
\* UNKNOWN, "Unknown log format", when it does not; both results carry the
\* file path and the modification time the classifier was called with.
C4_CrashedOrUnknown ==
    (/\ pc = "analyzed"
     /\ Get(read).ok
     /\ ~Contains(Stat(Get(latest_file)).content, MARKER_FAILED)
     /\ ~Contains(Stat(Get(latest_file)).content, MARKER_SUCCESS))
        => IF Contains(Stat(Get(latest_file)).content, MARKER_STARTED)
           THEN result = Some(JobState("CRASHED", "Crashed", latest_file, mtime))
           ELSE result = Some(JobState("UNKNOWN", "Unknown log format",
                                       latest_file, mtime))

\* C4 witness: a text with other text and then the start marker is CRASHED.
C4_Witness ==
    /\ pc = "analyzed"
    /\ Get(read).ok
    /\ Get(read).content = <<"Processing...", MARKER_STARTED>>
    /\ Returned.status = "CRASHED"
    /\ Returned.last_modification_time = mtime

\* the glob of the finished call matched no file
MatchedNothing == globbed = Some({})

\* C5 as stated: a job whose log_pattern matches zero files gets MISSING,
\* "No logs found", file absent.
C5_Original ==
    (pc = "done" /\ MatchedNothing) =>
        result = Some(JobState("MISSING", "No logs found", None, None))

\* C5 amended: a job whose log_pattern matches zero files and whose liveness
\* probe answered false gets MISSING, "No logs found", file absent.
C5_MissingWhenNotRunning ==
    (pc = "done" /\ MatchedNothing /\ ~running) =>
        result = Some(JobState("MISSING", "No logs found", None, None))

\* C5 witness: a job with a process pattern, no process, no log: MISSING.
C5_Witness ==
    /\ pc = "done"
    /\ MatchedNothing
    /\ ~running
    /\ job.process_pattern = "backup_script.py"
    /\ Returned.status = "MISSING"

\* C6 as stated: the file of a returned JobState is absent only when the status
\* is MISSING.
C6_Original ==
    pc = "done" => (Returned.file = None => Returned.status = "MISSING")

\* C6 amended: the file is absent only when the status is MISSING, or RUNNING
\* for a job whose log_pattern matched no file; every STALE, SUCCESS, FAILED,
\* CRASHED, UNKNOWN or ERROR result carries a log file path.
C6_FileAbsentOnlyWithoutLog ==
    pc = "done" =>
        /\ Returned.file = None =>
              \/ Returned.status = "MISSING"
              \/ (Returned.status = "RUNNING" /\ MatchedNothing)
        /\ Returned.status \in {"STALE", "SUCCESS", "FAILED", "CRASHED", "UNKNOWN",
                                "ERROR"} => Returned.file # None

\* C6 witness: RUNNING is returned for a job without any log, file absent.
C6_Witness ==
    /\ pc = "done"
    /\ Returned.status = "RUNNING"
    /\ Returned.file = None

\* C7: last_modification_time is set exactly for STALE, SUCCESS, FAILED, CRASHED
\* and UNKNOWN, absent for RUNNING, MISSING and ERROR, never set without a file,
\* and when set it is the modification time the call read for the file it names.
C7_ModificationTime ==
    pc = "done" =>
        /\ Returned.last_modification_time # None <=>
              Returned.status \in {"STALE", "SUCCESS", "FAILED", "CRASHED", "UNKNOWN"}
        /\ Returned.status \in {"RUNNING", "MISSING", "ERROR"} =>
              Returned.last_modification_time = None
        /\ Returned.last_modification_time # None =>
              /\ Returned.file # None
              /\ Returned.file = latest_file
              /\ Returned.last_modification_time = mtime

\* C7 witness: a result with a modification time, for a file that was written
\* again after the call had read its time.
C7_Witness ==
    /\ pc = "done"
    /\ Returned.last_modification_time # None
    /\ Exists(Get(Returned.file))
    /\ Returned.last_modification_time #
          Some(FromTimestamp(Stat(Get(Returned.file)).mtime))

\* C8: when reading the log's content fails the call does not raise: it returns
\* ERROR with the failure's description as message, the file path kept and no
\* modification time.
C8_ReadFailureIsError ==
    (read # None /\ ~Get(read).ok) =>
        /\ pc = "done"
        /\ raised = None
        /\ result = Some(JobState("ERROR", Get(read).error, latest_file, None))

\* C8 witness: the file found by the glob is gone when it is opened.
C8_Witness ==
    /\ pc = "done"
    /\ read # None
    /\ ~Get(read).ok
    /\ ~Exists(Get(latest_file))
    /\ Returned.status = "ERROR"

\* C9: is_job_running(None) and is_job_running("") return false without a
\* process query; a job with an empty process_pattern and no matching log gets
\* MISSING and no process query was made.
C9_NoQueryForEmptyPattern ==
    /\ (pc = "probed" /\ Get(probe).pattern \in {None, Some("")}) =>
          (~Get(probe).value /\ steps = <<>> /\ raised = None)
    /\ (pc = "done" /\ job.process_pattern = "" /\ MatchedNothing) =>
          /\ Returned.status = "MISSING"
          /\ Returned.file = None
          /\ \A i \in 1..Len(steps) : steps[i] # "pgrep"

\* C9 witness: MISSING for a job with an empty pattern while a process runs.
C9_Witness ==
    /\ pc = "done"
    /\ job.process_pattern = ""
    /\ proc_alive
    /\ Returned.status = "MISSING"

\* C10: is_job_running never raises; it returns true exactly when the query
\* completed with exit status 0, false for any other status or failure.
C10_ProbeNeverRaises ==
    pc = "probed" =>
        /\ raised = None
        /\ Get(probe).value <=>
              /\ steps = <<"pgrep">>
              /\ Get(probe).outcome.kind = "exit"
              /\ Get(probe).outcome.code = 0

\* C10 witness: the query fails while the process is alive, the answer is false.
C10_Witness ==
    /\ pc = "probed"
    /\ proc_alive
    /\ Get(probe).pattern = Some("backup_script.py")
    /\ Get(probe).outcome.kind = "raise"
    /\ ~Get(probe).value

\* ---------------------------------------------------- claims on the windows
\* the reference time of a finished direct call of the window check
RefTime == IF arg_current_time = None THEN Get(checked_at) ELSE Get(arg_current_time)

\* the proleptic Gregorian ordinal of a time's date; ordinal 1 is a Monday
OrdOf(dt) == Ymd2Ord(dt.year, dt.month, dt.day)

\* ISO-8601 day of the week, Monday 1 to Sunday 7
IsoWeekdayOf(dt) == ((OrdOf(dt) + 6) % 7) + 1

\* ISO-8601: a week belongs to the year of its Thursday, and is numbered by
\* the rank of that Thursday among the Thursdays of the year.
ThursdayOf(dt) == OrdOf(dt) - IsoWeekdayOf(dt) + 4

IsoYearOf(dt) == Ord2Ymd(ThursdayOf(dt)).year

IsoWeekOf(dt) == ((ThursdayOf(dt) - Ymd2Ord(IsoYearOf(dt), 1, 1)) \div 7) + 1

\* C11: the weekly check is true exactly when both times have the same ISO
\* (week-numbering year, week number): Monday and the Sunday after it are in
\* one window, a Sunday and the next Monday are not, two consecutive Mondays
\* are not.
C11_WeeklySameIsoWeek ==
    (pc = "windowed" /\ arg_frequency = "weekly") =>
        /\ Get(within) <=>
              <<IsoYearOf(arg_last_run), IsoWeekOf(arg_last_run)>>
                  = <<IsoYearOf(RefTime), IsoWeekOf(RefTime)>>
        /\ (IsoWeekdayOf(arg_last_run) = 1 /\ OrdOf(RefTime) = OrdOf(arg_last_run) + 6)
              => Get(within)
        /\ (IsoWeekdayOf(arg_last_run) = 7 /\ OrdOf(RefTime) = OrdOf(arg_last_run) + 1)
              => ~Get(within)
        /\ (IsoWeekdayOf(arg_last_run) = 1 /\ OrdOf(RefTime) = OrdOf(arg_last_run) + 7)
              => ~Get(within)

\* C11 witness: two days of one ISO week on both sides of a turn of the year
\* are in the same weekly window.
C11_Witness ==
    /\ pc = "windowed"
    /\ arg_frequency = "weekly"
    /\ arg_last_run.year + 1 = RefTime.year
    /\ Get(within)

\* C12: the daily check is true exactly when both times have the same
\* calendar date, whatever their times of day.
C12_DailySameDate ==
    (pc = "windowed" /\ arg_frequency = "daily") =>
        /\ Get(within) <=> (OrdOf(arg_last_run) = OrdOf(RefTime))
        /\ (arg_last_run.hour = 23 /\ RefTime.hour = 0
               /\ OrdOf(RefTime) = OrdOf(arg_last_run) + 1) => ~Get(within)

\* C12 witness: the first and the last hour of one date are in the same daily
\* window.
C12_Witness ==
    /\ pc = "windowed"
    /\ arg_frequency = "daily"
    /\ arg_last_run.hour = 0
    /\ RefTime.hour = 23
    /\ Get(within)

\* C13: the monthly check is true exactly when both times have the same
\* (year, month) pair.
C13_MonthlySameYearMonth ==
    (pc = "windowed" /\ arg_frequency = "monthly") =>
        /\ Get(within) <=>
              <<arg_last_run.year, arg_last_run.month>> = <<RefTime.year, RefTime.month>>
        /\ (arg_last_run.month = 12 /\ RefTime.month = 1
               /\ RefTime.year = arg_last_run.year + 1) => ~Get(within)

\* C13 witness: the same month number a year apart is outside the monthly
\* window.
C13_Witness ==
    /\ pc = "windowed"
    /\ arg_frequency = "monthly"
    /\ arg_last_run.month = RefTime.month
    /\ arg_last_run.year # RefTime.year
    /\ ~Get(within)

\* C14: with a tag that is not daily, weekly or monthly the window check
\* returns false and does not raise; with a valid tag it returns what the
\* check of that tag returns.
C14_UnknownTagIsFalse ==
    pc = "windowed" =>
        /\ raised = None
        /\ within # None
        /\ arg_frequency \notin JobFrequency => ~Get(within)
        /\ arg_frequency = "daily" => Get(within) = check_daily(arg_last_run, RefTime)
        /\ arg_frequency = "weekly" => Get(within) = check_weekly(arg_last_run, RefTime)
        /\ arg_frequency = "monthly" => Get(within) = check_monthly(arg_last_run, RefTime)

\* C14 witness: an unknown tag with both times on the same date returns false.
C14_Witness ==
    /\ pc = "windowed"
    /\ arg_frequency = "invalid_frequency"
    /\ arg_last_run = RefTime
    /\ ~Get(within)

\* ------------------------------------------- claims on get_latest_log_file
\* C15: get_latest_log_file returns absent exactly when the glob matched
\* nothing, and that call does not raise; otherwise the path it returns is one
\* of the matched paths and no matched path is newer.
C15_LatestOrAbsent ==
    /\ pc = "located" =>
          /\ raised = None
          /\ latest_file = None <=> Get(globbed) = {}
          /\ latest_file # None =>
                /\ Get(latest_file) \in Get(globbed)
                /\ \A g \in Get(globbed) :
                      Stat(g).mtime <= Stat(Get(latest_file)).mtime
    /\ (pc = "raised" /\ globbed # None) => Get(globbed) # {}

\* C15 witness: of two matched files of different age the newer is returned.
C15_Witness ==
    /\ pc = "located"
    /\ Get(globbed) = Files
    /\ \E g \in Files : Stat(g).mtime < Stat(Get(latest_file)).mtime

\* ------------------------------------------------------ claims on load_jobs
\* the Jobs a returned list may hold: the four fields, a known frequency
IsValidJob(j) ==
    /\ DOMAIN j = {"name", "frequency", "log_pattern", "process_pattern"}
    /\ j.frequency \in JobFrequency

\* C20: load_jobs never raises and never returns an invalid Job: no file or an
\* unparsable file gives the empty list, the records that do not validate are
\* dropped and the others are returned in file order.
C20_WellFormedRecordsLoaded ==
    app = "loaded" =>
        /\ raised = None
        /\ \A i \in 1..Len(jobs) : IsValidJob(jobs[i])
        /\ config.kind \in {"missing", "invalid_json"} => jobs = <<>>
        /\ config.kind = "jobs" =>
              LET valid == SelectSeq(config.records, Validates)
              IN  jobs = [i \in 1..Len(valid) |-> JobOf(valid[i])]

\* --------------------------------------------------- claims on the batches
\* C16: in a tray refresh or a CLI table a failure while one job is evaluated,
\* a log deleted between the glob and the modification-time read included,
\* stays in that job's JobState: get_job_state does not raise, no batch is
\* abandoned, a finished refresh has updated every row and a printed table
\* has a row for every job.
C16_FailureConfinedToJob ==
    /\ app \in {"refreshing", "cli_table"} => pc # "raised"
    /\ app \notin {"crashed", "cli_crashed"}
    /\ app = "started" => \A k \in 1..Len(job_rows) : job_rows[k].shown = cycle
    /\ (app = "cli_done" /\ Get(output).kind = "table") =>
          Len(Get(output).rows) = Len(jobs)

\* the jobs of the tray's rows, in row order
RowJobs == [k \in 1..Len(job_rows) |-> job_rows[k].job]

\* where a frequency first appears in the loaded list
FirstIndex(frequency) ==
    CHOOSE i \in 1..Len(jobs) :
        /\ jobs[i].frequency = frequency
        /\ \A k \in 1..(i - 1) : jobs[k].frequency # frequency

\* the CLI numbers its rows 1, 2, ... in the order of the loaded list, and
\* `id k` views the log of the job of row k
CliKeepsOrder ==
    /\ (app = "cli_done" /\ Get(output).kind = "table") =>
          /\ Len(Get(output).rows) = Len(jobs)
          /\ \A k \in 1..Len(jobs) :
                /\ Get(output).rows[k].number = k
                /\ Get(output).rows[k].name = jobs[k].name
    /\ (app = "cli_done" /\ Get(output).kind = "log") =>
          /\ Get(arg_id) \in 1..Len(jobs)
          /\ Get(output).name = jobs[Get(arg_id)].name

\* the k-th collected status is the status shown by the k-th row
StatusesFollowRows ==
    app \in {"refreshing", "started"} =>
        /\ Len(current_statuses) <= Len(job_rows)
        /\ \A k \in 1..Len(current_statuses) :
              /\ job_rows[k].shown = cycle
              /\ Get(job_rows[k].state).status = current_statuses[k]

\* C18 as stated: the CLI keeps the order of the loaded list, and so does the
\* tray: row k and status k belong to the k-th loaded job.
C18_Original ==
    /\ CliKeepsOrder
    /\ StatusesFollowRows
    /\ app \in {"refreshing", "started"} => RowJobs = jobs

\* C18, amended: the CLI keeps the order of the loaded list; the tray's rows
\* are the loaded jobs grouped by frequency, the frequencies in the order of
\* their first job and the jobs of one frequency in list order, and status k
\* belongs to row k.
C18_RowsGroupedByFrequency ==
    /\ CliKeepsOrder
    /\ StatusesFollowRows
    /\ app \in {"refreshing", "started"} =>
          /\ Len(job_rows) = Len(jobs)
          /\ \A fr \in JobFrequency :
                SelectSeq(RowJobs, LAMBDA j : j.frequency = fr)
                    = SelectSeq(jobs, LAMBDA j : j.frequency = fr)
          /\ \A a, b \in 1..Len(job_rows) :
                a < b => FirstIndex(RowJobs[a].frequency)
                            <= FirstIndex(RowJobs[b].frequency)

\* C18 witness: after a refresh of the list Daily Backup, Weekly Report, Daily
\* Sync the second row and the second status are Daily Sync's.
C18_Witness ==
    /\ app = "started"
    /\ jobs = <<DailyBackup, WeeklyReport, DailySync>>
    /\ RowJobs = <<DailyBackup, DailySync, WeeklyReport>>
    /\ Len(current_statuses) = 3

\* ------------------------------------------------ claims on repeated calls
\* the decision procedure of the specification, applied to the facts one call
\* observed
Resolve(j, facts) ==
    IF facts.running
    THEN JobState("RUNNING", "Process active", facts.latest_file, None)
    ELSE IF facts.latest_file = None
    THEN JobState("MISSING", "No logs found", None, None)
    ELSE IF ~SameWindow(j.frequency, Get(facts.mtime), Get(facts.checked_at))
    THEN JobState("STALE", "Pending", facts.latest_file, facts.mtime)
    ELSE analyze_log_file(Get(facts.latest_file), Get(facts.mtime), Get(facts.read))

\* C17: get_job_state keeps nothing between calls: what a call returns is
\* determined by the facts that call observed, and it equals what an earlier
\* call for the same job returned whenever that call observed the same facts.
C17_NoStateBetweenCalls ==
    pc = "done" =>
        /\ Returned = Resolve(job, Facts)
        /\ (last_call # None /\ Get(last_call).job = job
               /\ Get(last_call).facts = Facts)
              => Returned = Get(last_call).result

\* C17 witness: a call for a job whose earlier call returned SUCCESS observes
\* that the log is gone and returns MISSING.
C17_Witness ==
    /\ pc = "done"
    /\ last_call # None
    /\ Get(last_call).job = job
    /\ Get(last_call).result.status = "SUCCESS"
    /\ Returned.status = "MISSING"

\* ------------------------------------------- claims on an interrupted refresh
\* C19: a refresh cycle that an exception interrupts leaves no trace on the
\* display: no row shows a JobState of that cycle (the tray icon, set at the
\* end of a cycle only, is the previous cycle's).
C19_AllOrNothing ==
    app = "crashed" => \A k \in 1..Len(job_rows) : job_rows[k].shown < cycle

\* ------------------------------------------- claims on the order of the steps
\* the external operations of a whole evaluation, in the order of the
\* specification: probe, log discovery (glob and the stats of max), the
\* modification-time read, the clock of the window check, the content read
AllSteps == <<"pgrep", "glob", "stat", "stat", "now", "open">>

IsPrefix(s, t) == Len(s) <= Len(t) /\ \A i \in 1..Len(s) : s[i] = t[i]

\* C21: the steps of an evaluation come in the order probe, log discovery,
\* modification-time read, window check, content read (the probe's query is
\* skipped for an empty pattern); the content is read only after a false
\* probe, with a log found whose modification time is inside the window, so an
\* evaluation that ends RUNNING, MISSING or STALE has read no content.
C21_StepsInOrder ==
    /\ IsPrefix(steps, AllSteps) \/ IsPrefix(steps, Tail(AllSteps))
    /\ (\E i \in 1..Len(steps) : steps[i] = "open") =>
          /\ ~running
          /\ latest_file # None
          /\ mtime # None
          /\ checked_at # None
          /\ SameWindow(job.frequency, Get(mtime), Get(checked_at))
    /\ (pc = "done" /\ Returned.status \in {"RUNNING", "MISSING", "STALE"}) =>
          /\ read = None
          /\ \A i \in 1..Len(steps) : steps[i] # "open"

\* C21 witness: an evaluation that went through all five steps and read a
\* complete log.
C21_Witness ==
    /\ pc = "done"
    /\ steps = AllSteps
    /\ Returned.status = "SUCCESS"

\* ------------------------------------------------------- claims on CRASHED
\* C22: whenever get_job_state returns CRASHED the job's process is not alive
\* at that moment, however the job's start, its writing the start marker and
\* its exit fall between the steps of the evaluation (proc_alive is the
\* process that the pattern "backup_script.py" matches).
C22_CrashedMeansNotAlive ==
    (pc = "done" /\ Returned.status = "CRASHED"
        /\ job.process_pattern = "backup_script.py") => ~proc_alive

\* ------------------------------------------------- claims on a hung query
\* C23: every refresh cycle that starts completes and sets the tray icon,
\* also when an external query of one of its jobs never returns.
C23_RefreshCompletes == (app = "refreshing") ~> (app = "started")

\* ------------------------------------------------- claims on the tray icon
\* the statuses the rows show
ShownStatuses == {Get(job_rows[k].state).status : k \in 1..Len(job_rows)}

\* C24: after a completed refresh every row shows a JobState of that cycle
\* and the tray icon is that of the worst status shown: the failure icon with
\* a FAILED, CRASHED or ERROR row, else the warning icon with a STALE, MISSING
\* or UNKNOWN row, else the success icon, in whatever order the rows are.
C24_IconOfWorstStatus ==
    app = "started" =>
        /\ \A k \in 1..Len(job_rows) : job_rows[k].shown = cycle
        /\ Get(tray_icon).icon =
              IF ShownStatuses \cap {"FAILED", "CRASHED", "ERROR"} # {}
              THEN "emblem-important"
              ELSE IF ShownStatuses \cap {"STALE", "MISSING", "UNKNOWN"} # {}
              THEN "emblem-synchronizing"
              ELSE "emblem-default"

\* C24 witness: a STALE row before a FAILED row, the failure icon shown.
C24_Witness ==
    /\ app = "started"
    /\ Len(job_rows) = 2
    /\ Get(job_rows[1].state).status = "STALE"
    /\ Get(job_rows[2].state).status = "FAILED"
    /\ Get(tray_icon).icon = "emblem-important"
====
